---- MODULE Spec2Model ----
(***************************************************************************)
(* Model of find-a-grant-applications-to-csv: the flattening and header    *)
(* ordering engine (csv_utils.py), the pipeline that drives it             *)
(* (cli.py run_pipeline, applications_to_csv.py main) and the constant     *)
(* column filter; and the transport layer (http_client.py and the curl     *)
(* functions of applications_to_csv.py): the request loop with its retries *)
(* and the aggregation of the pages.                                       *)
(*                                                                         *)
(* Strings are sequences of tokens.  A token is one whitespace character,  *)
(* one punctuation character, or a word: a non-empty run of [A-Za-z0-9]    *)
(* that no regular expression of the program splits.  The words used are   *)
(* uniquely decodable (no word is a concatenation of others), so two       *)
(* token sequences are equal exactly when the strings they spell are.      *)
(*                                                                         *)
(* JSON values are records [t |-> "null"], [t |-> "str", s |-> tokens],    *)
(* [t |-> "int", s |-> digits], [t |-> "list", items |-> <<values>>] and   *)
(* [t |-> "dict", items |-> <<[k |-> tokens, v |-> value]>>].  A Python    *)
(* dict is the insertion-ordered sequence of its [k, v] entries.           *)
(***************************************************************************)
EXTENDS Integers, Sequences, FiniteSets, TLC

VARIABLES
    pc,             \* position of the running specification
    args,           \* the options of the run (argparse namespace / fixed keywords)
    cache,          \* list of (meta, dyn, blocks), one per submission processed
    seen_headers,   \* set of column names already placed
    final_headers,  \* the global header list
    all_cols_seen,  \* set of every key of every meta / dyn map
    rows,           \* materialized rows
    removed,        \* names returned by drop_constant_columns
    written,        \* what the csv.DictWriter wrote: [header, rows]
    fn_in,          \* input of the function under check (function specifications)
    fn_out,         \* its result
    attempt,        \* request loop: number of attempts issued
    last_err,       \* request loop: the last failure
    sleeps,         \* request loop: the time.sleep calls made, in order
    responses,      \* request loop: what each attempt met, in order
    total_pages,    \* aggregation: pages the first document announces
    merged,         \* aggregation: the document being merged
    futures,        \* aggregation: state of the fetch of each page from 2 on
    completed,      \* aggregation: the fetches in the order they completed
    page_results,   \* aggregation: result slot of each page from 2 on
    idx             \* aggregation: position of the loop over the fetches

\* The variables of the transport layer.
network_vars == <<attempt, last_err, sleeps, responses, total_pages, merged, futures,
                  completed, page_results, idx>>

vars == <<pc, args, cache, seen_headers, final_headers, all_cols_seen, rows,
          removed, written, fn_in, fn_out, attempt, last_err, sleeps, responses,
          total_pages, merged, futures, completed, page_results, idx>>

\* No request is running.
NoRequest ==
    /\ attempt = 0
    /\ last_err = ""
    /\ sleeps = <<>>
    /\ responses = <<>>

\* No aggregation is running.
NoAggregation ==
    /\ total_pages = 0
    /\ merged = <<>>
    /\ futures = <<>>
    /\ completed = <<>>
    /\ page_results = <<>>
    /\ idx = 0

-----------------------------------------------------------------------------
(* Characters and strings *)

Whitespace == {" ", "\t"}

Punct == {"_", ":", "-", "|", ",", "[", "]", "{", "}", "\"", "\\", "?"}

\* Everything the class [^A-Za-z0-9] matches.
NonAlnum == Whitespace \cup Punct

Range(s) == {s[i] : i \in 1..Len(s)}

IsPrefix(s, t) == Len(s) <= Len(t) /\ SubSeq(t, 1, Len(s)) = s

NoDup(s) == \A i, j \in 1..Len(s) : s[i] = s[j] => i = j

SetMin(S) == CHOOSE x \in S : \A y \in S : x <= y

SetMax(S) == CHOOSE x \in S : \A y \in S : y <= x

\* re.sub(<class>+, r, s): every maximal run of characters of class C becomes r.
ReplaceRuns(s, C, r) ==
    LET F[i \in 0..Len(s)] ==
            IF i = 0 THEN <<>>
            ELSE IF s[i] \in C
                 THEN IF i > 1 /\ s[i-1] \in C THEN F[i-1] ELSE Append(F[i-1], r)
                 ELSE Append(F[i-1], s[i])
    IN F[Len(s)]

\* str.strip(chars): drop leading and trailing characters of class C.
Strip(s, C) ==
    LET keep == {i \in 1..Len(s) : s[i] \notin C}
    IN IF keep = {} THEN <<>> ELSE SubSeq(s, SetMin(keep), SetMax(keep))

\* Concatenation of a sequence of strings.
Concat(ss) ==
    LET F[i \in 0..Len(ss)] == IF i = 0 THEN <<>> ELSE F[i-1] \o ss[i]
    IN F[Len(ss)]

\* sep.join(ss)
Join(sep, ss) ==
    LET F[i \in 0..Len(ss)] ==
            IF i = 0 THEN <<>>
            ELSE IF i = 1 THEN ss[1] ELSE F[i-1] \o sep \o ss[i]
    IN F[Len(ss)]

\* x or "unnamed"
OrUnnamed(x) == IF x = <<>> THEN <<"unnamed">> ELSE x

\* sanitize_col that leaves punctuation as it is.
sanitize_col_keeps_punctuation(name) ==
    OrUnnamed(Strip(ReplaceRuns(name, Whitespace, " "), Whitespace))

\* sanitize_col without the final .strip("_").
sanitize_col_no_final_strip(name) ==
    OrUnnamed(ReplaceRuns(Strip(ReplaceRuns(name, Whitespace, " "), Whitespace),
                          NonAlnum, "_"))

\* re.sub(r"\s+", " ", name).strip(), then re.sub(r"[^A-Za-z0-9]+", "_", .),
\* then .strip("_") or "unnamed".
sanitize_col(name) ==
    OrUnnamed(Strip(ReplaceRuns(Strip(ReplaceRuns(name, Whitespace, " "), Whitespace),
                                NonAlnum, "_"),
                    {"_"}))

-----------------------------------------------------------------------------
(* JSON values and Python dicts *)

Null == [t |-> "null"]

Str(s) == [t |-> "str", s |-> s]

Num(s) == [t |-> "int", s |-> s]

List(items) == [t |-> "list", items |-> items]

Dict(items) == [t |-> "dict", items |-> items]

KV(k, v) == [k |-> k, v |-> v]

\* isinstance(v, (str, int, float, type(None)))
IsScalar(v) == v.t \in {"null", "str", "int"}

\* Python truth value of a JSON value (x or y).
Truthy(v) ==
    CASE v.t = "null" -> FALSE
      [] v.t = "str" -> v.s # <<>>
      [] v.t = "int" -> v.s # <<"0">>
      [] OTHER -> v.items # <<>>

\* str(v) of a scalar that is not None.
PyStr(v) == v.s

\* obj.get(k): the field, None when absent.
Get(obj, k) == IF k \in DOMAIN obj THEN obj[k] ELSE Null

DictKeys(d) == [i \in 1..Len(d) |-> d[i].k]

KeySet(d) == {d[i].k : i \in 1..Len(d)}

HasKey(d, k) == \E i \in 1..Len(d) : d[i].k = k

DictGet(d, k) == d[CHOOSE i \in 1..Len(d) : d[i].k = k].v

\* d[k] = v: an existing key keeps its place, a new key goes last.
DictSet(d, k, v) ==
    IF HasKey(d, k)
    THEN [i \in 1..Len(d) |-> IF d[i].k = k THEN KV(k, v) ELSE d[i]]
    ELSE Append(d, KV(k, v))

\* d.setdefault(k, v)
DictSetDefault(d, k, v) == IF HasKey(d, k) THEN d ELSE Append(d, KV(k, v))

\* d.update(e)
DictUpdate(d, e) ==
    LET F[i \in 0..Len(e)] ==
            IF i = 0 THEN d ELSE DictSet(F[i-1], e[i].k, e[i].v)
    IN F[Len(e)]

\* The escapes json.dumps applies inside a string literal.
JsonEscape(s) ==
    Concat([i \in 1..Len(s) |->
               CASE s[i] = "\t" -> <<"\\", "t">>
                 [] s[i] = "\"" -> <<"\\", "\"">>
                 [] s[i] = "\\" -> <<"\\", "\\">>
                 [] OTHER -> <<s[i]>>])

RECURSIVE json_dumps(_)
\* json.dumps(v, ensure_ascii=False) as text.
json_dumps(v) ==
    CASE v.t = "null" -> <<"null">>
      [] v.t = "int" -> v.s
      [] v.t = "str" -> <<"\"">> \o JsonEscape(v.s) \o <<"\"">>
      [] v.t = "list" ->
            <<"[">> \o Join(<<",", " ">>,
                            [i \in 1..Len(v.items) |-> json_dumps(v.items[i])])
                    \o <<"]">>
      [] OTHER ->
            <<"{">> \o Join(<<",", " ">>,
                            [i \in 1..Len(v.items) |->
                                <<"\"">> \o JsonEscape(v.items[i].k) \o <<"\"", ":", " ">>
                                         \o json_dumps(v.items[i].v)])
                    \o <<"}">>

try_json_cell(obj) ==
    CASE obj.t = "null" -> Str(<<>>)
      [] obj.t \in {"str", "int"} -> obj
      [] OTHER -> Str(json_dumps(obj))

\* The cell flatten stores for a value that is not a dict.
LeafCell(value) ==
    IF value.t = "list"
    THEN IF \A i \in 1..Len(value.items) : IsScalar(value.items[i])
         THEN Str(Join(<<" ", "|", " ">>,
                       [i \in 1..Len(value.items) |->
                           IF value.items[i].t = "null" THEN <<>>
                           ELSE PyStr(value.items[i])]))
         ELSE Str(json_dumps(value))
    ELSE value

RECURSIVE flatten(_, _)

\* The body of "for k, v in value.items()" once col is computed.
FlattenItem(out, col, v) ==
    IF v.t \in {"dict", "list"}
    THEN DictUpdate(out, flatten(col, v))
    ELSE DictSet(out, col, v)

flatten(prefix, value) ==
    IF value.t = "dict"
    THEN LET F[i \in 0..Len(value.items)] ==
                 IF i = 0 THEN <<>>
                 ELSE FlattenItem(F[i-1],
                                  sanitize_col(prefix \o <<"_">> \o value.items[i].k),
                                  value.items[i].v)
         IN F[Len(value.items)]
    ELSE <<KV(sanitize_col(prefix), LeafCell(value))>>

\* if prefix_section and section_title: base = f"{sanitize_col(section_title)}__{base}"
WithSection(base, section_title, prefix_section) ==
    IF prefix_section /\ Truthy(section_title)
    THEN sanitize_col(PyStr(section_title)) \o <<"_", "_">> \o base
    ELSE base

\* if include_qid and question_id: base = f"{base}__{sanitize_col(question_id)}"
WithQid(base, question_id, include_qid) ==
    IF include_qid /\ Truthy(question_id)
    THEN base \o <<"_", "_">> \o sanitize_col(PyStr(question_id))
    ELSE base

build_header_name(question_title, question_id, section_title, include_qid, prefix_section) ==
    WithQid(WithSection(sanitize_col(PyStr(IF Truthy(question_title) THEN question_title
                                           ELSE IF Truthy(question_id) THEN question_id
                                           ELSE Str(<<"question">>))),
                        section_title, prefix_section),
            question_id, include_qid)

\* section_separator_header without the space after the colon.
section_separator_header_no_space(section_title) ==
    <<"Section", ":">>
    \o Strip(IF Truthy(section_title) THEN PyStr(section_title)
             ELSE <<"Untitled", " ", "Section">>, Whitespace)

section_separator_header(section_title) ==
    <<"Section", ":", " ">>
    \o Strip(IF Truthy(section_title) THEN PyStr(section_title)
             ELSE <<"Untitled", " ", "Section">>, Whitespace)

-----------------------------------------------------------------------------
(* Row Extractor *)

ROOT_META_CANDIDATES ==
    <<"applicationFormName", "applicationFormVersion", "applicationId",
      "ggisReferenceNumber", "grantAdminEmailAddress">>

SUBMISSION_META_FIELDS ==
    <<"submissionId", "grantApplicantEmailAddress", "submittedTimeStamp", "gapId">>

\* for k in fields: if k in obj: meta[sanitize_col(k)] = obj[k]
CopyFields(meta, fields, obj) ==
    LET F[i \in 0..Len(fields)] ==
            IF i = 0 THEN meta
            ELSE IF fields[i] \in DOMAIN obj
                 THEN DictSet(F[i-1], sanitize_col(<<fields[i]>>), obj[fields[i]])
                 ELSE F[i-1]
    IN F[Len(fields)]

\* {k: try_json_cell(v) for k, v in d.items()}
CellDict(d) == [i \in 1..Len(d) |-> KV(d[i].k, try_json_cell(d[i].v))]

\* for fk, fv in flat.items(): dynamic[fk] = fv; section_cols.append(fk)
StoreFlat(st, flat) ==
    [dynamic |-> DictUpdate(st.dynamic, flat),
     section_cols |-> st.section_cols \o DictKeys(flat)]

\* StoreScalar that forgets section_cols.append(col).
StoreScalar_no_block_col(st, col, resp) ==
    [dynamic |-> DictSet(st.dynamic, col, resp),
     section_cols |-> st.section_cols]

\* dynamic[col] = resp; section_cols.append(col)
StoreScalar(st, col, resp) ==
    [dynamic |-> DictSet(st.dynamic, col, resp),
     section_cols |-> Append(st.section_cols, col)]

\* if col in dynamic and not include_qid: col = f"{col}__{... if q_id else 'dup'}"
Disambiguate(dynamic, col, q_id, include_qid) ==
    IF HasKey(dynamic, col) /\ ~include_qid
    THEN col \o <<"_", "_">>
             \o (IF Truthy(q_id) THEN sanitize_col(PyStr(q_id)) ELSE <<"dup">>)
    ELSE col

\* The two branches on the response's type: st is [dynamic, section_cols].
StoreResponse(st, col, q_id, resp, include_qid) ==
    IF resp.t \in {"dict", "list"}
    THEN StoreFlat(st, flatten(col, resp))
    ELSE StoreScalar(st, Disambiguate(st.dynamic, col, q_id, include_qid), resp)

\* One pass of the question loop.
ExtractQuestion(st, q, sec_title, include_qid, prefix_section) ==
    StoreResponse(st,
                  build_header_name(
                      Str(Strip(IF Truthy(Get(q, "questionTitle"))
                                THEN PyStr(Get(q, "questionTitle")) ELSE <<>>,
                                Whitespace)),
                      Get(q, "questionId"), sec_title, include_qid, prefix_section),
                  Get(q, "questionId"), Get(q, "questionResponse"), include_qid)

\* The question loop of one section, from st = [dynamic, section_cols].
ExtractQuestions(st, questions, sec_title, include_qid, prefix_section) ==
    LET Q[i \in 0..Len(questions)] ==
            IF i = 0 THEN st
            ELSE ExtractQuestion(Q[i-1], questions[i], sec_title, include_qid,
                                 prefix_section)
    IN Q[Len(questions)]

\* blocks.append((sep_header or "", section_cols))
CloseBlock(blocks, sep_header, st) ==
    [dynamic |-> st.dynamic, blocks |-> Append(blocks, <<sep_header, st.section_cols>>)]

\* The section loop body once sec_title and sep_header are computed.  None is
\* written as the empty string: the code only tests sep_header's truth value.
ExtractTitled(st, sec, sec_title, sep_header, include_qid, prefix_section) ==
    CloseBlock(st.blocks, sep_header,
               ExtractQuestions(
                   [dynamic |-> IF sep_header # <<>>
                                THEN DictSetDefault(st.dynamic, sep_header, Str(<<>>))
                                ELSE st.dynamic,
                    section_cols |-> <<>>],
                   IF "questions" \in DOMAIN sec THEN sec.questions ELSE <<>>,
                   sec_title, include_qid, prefix_section))

\* sec.get("sectionTitle") or sec.get("sectionId") or ""
SecTitle(sec) ==
    IF Truthy(Get(sec, "sectionTitle")) THEN Get(sec, "sectionTitle")
    ELSE IF Truthy(Get(sec, "sectionId")) THEN Get(sec, "sectionId")
    ELSE Str(<<>>)

\* One pass of the section loop: st is [dynamic, blocks].
ExtractSection(st, sec, include_qid, prefix_section, add_section_separators) ==
    ExtractTitled(st, sec, SecTitle(sec),
                  IF add_section_separators
                  THEN section_separator_header(SecTitle(sec)) ELSE <<>>,
                  include_qid, prefix_section)

ExtractSections(sections, include_qid, prefix_section, add_section_separators) ==
    LET S[i \in 0..Len(sections)] ==
            IF i = 0 THEN [dynamic |-> <<>>, blocks |-> <<>>]
            ELSE ExtractSection(S[i-1], sections[i], include_qid, prefix_section,
                                add_section_separators)
    IN S[Len(sections)]

\* return meta, dynamic, blocks (after the conversion to CSV-safe cells)
RowOf(meta, st) ==
    [meta |-> CellDict(meta), dyn |-> CellDict(st.dynamic), blocks |-> st.blocks]

extract_row(root_meta, sub, include_qid, prefix_section, add_section_separators) ==
    RowOf(CopyFields(CopyFields(CopyFields(<<>>, ROOT_META_CANDIDATES, root_meta),
                                SUBMISSION_META_FIELDS, sub),
                     ROOT_META_CANDIDATES, sub),
          ExtractSections(IF "sections" \in DOMAIN sub THEN sub.sections ELSE <<>>,
                          include_qid, prefix_section, add_section_separators))

-----------------------------------------------------------------------------
(* Constant-Column Filter *)

\* A compiled pattern [anchored, lit, ws]: lit, after ^ when anchored, followed
\* by one whitespace character (\s) when ws.  SectionPattern is ^Section:\s .
SectionPattern == [anchored |-> TRUE, lit |-> <<"Section", ":">>, ws |-> TRUE]

\* p.search(c)
Search(p, c) ==
    \E i \in 1..(Len(c) + 1) :
        /\ p.anchored => i = 1
        /\ i + Len(p.lit) - 1 <= Len(c)
        /\ SubSeq(c, i, i + Len(p.lit) - 1) = p.lit
        /\ p.ws => /\ i + Len(p.lit) <= Len(c)
                   /\ c[i + Len(p.lit)] \in Whitespace

force_keep(c, keep_patterns) ==
    \E i \in 1..Len(keep_patterns) : Search(keep_patterns[i], c)

\* r.get(c, "")
RowGet(r, c) == IF HasKey(r, c) THEN DictGet(r, c) ELSE Str(<<>>)

\* The set s of the distinct values of column c.
DistinctValues(rs, c, ignore_empty) ==
    LET vals == {RowGet(rs[i], c) : i \in 1..Len(rs)}
    IN IF ignore_empty
       THEN {v \in vals : Strip(PyStr(v), Whitespace) # <<>>}
       ELSE vals

\* ConstantColumns that takes a column for constant only when its set of values
\* has exactly one member.
ConstantColumns_one_value(rs, ignore_empty, keep_patterns) ==
    LET Constant(c) == /\ ~force_keep(c, keep_patterns)
                       /\ Cardinality(DistinctValues(rs, c, ignore_empty)) = 1
    IN SelectSeq(DictKeys(rs[1]), Constant)

\* The names the loop over cols appends to remove.
ConstantColumns(rs, ignore_empty, keep_patterns) ==
    LET Constant(c) == /\ ~force_keep(c, keep_patterns)
                       /\ Cardinality(DistinctValues(rs, c, ignore_empty)) <= 1
    IN SelectSeq(DictKeys(rs[1]), Constant)

\* RemoveColumns that returns the filtered rows in reverse order.
RemoveColumns_reversed(rs, remove) ==
    LET Kept(e) == e.k \notin Range(remove)
    IN [rows |-> [i \in 1..Len(rs) |-> SelectSeq(rs[Len(rs) + 1 - i], Kept)],
        remove |-> remove]

\* if remove: rows = [{k: v for k, v in r.items() if k not in remove} for r in rows]
RemoveColumns(rs, remove) ==
    LET Kept(e) == e.k \notin Range(remove)
    IN [rows |-> IF remove # <<>>
                 THEN [i \in 1..Len(rs) |-> SelectSeq(rs[i], Kept)]
                 ELSE rs,
        remove |-> remove]

drop_constant_columns(rs, ignore_empty, keep_patterns) ==
    IF rs = <<>> THEN [rows |-> rs, remove |-> <<>>]
    ELSE RemoveColumns(rs, ConstantColumns(rs, ignore_empty, keep_patterns))

-----------------------------------------------------------------------------
(* Header Aggregator and pipeline *)

meta_order ==
    [i \in 1..Len(ROOT_META_CANDIDATES) |-> sanitize_col(<<ROOT_META_CANDIDATES[i]>>)]
    \o [i \in 1..Len(SUBMISSION_META_FIELDS) |-> sanitize_col(<<SUBMISSION_META_FIELDS[i]>>)]

\* A key goes last unless it is there already.
AddKey(keys, x) == IF x \in Range(keys) THEN keys ELSE Append(keys, x)

\* list(dict.fromkeys(xs)): first occurrences, in order.
FromKeys(xs) ==
    LET F[i \in 0..Len(xs)] == IF i = 0 THEN <<>> ELSE AddKey(F[i-1], xs[i])
    IN F[Len(xs)]

\* AppendUnseen that forgets seen_headers.add(col).
AppendUnseen_no_add(st, col) ==
    IF col \notin st.seen
    THEN [headers |-> Append(st.headers, col), seen |-> st.seen]
    ELSE st

\* AppendUnseen that inserts at the front of the list.
AppendUnseen_insert_front(st, col) ==
    IF col \notin st.seen
    THEN [headers |-> <<col>> \o st.headers, seen |-> st.seen \cup {col}]
    ELSE st

\* AppendUnseen that forgets final_headers.append(col).
AppendUnseen_no_append(st, col) ==
    IF col \notin st.seen
    THEN [headers |-> st.headers, seen |-> st.seen \cup {col}]
    ELSE st

\* if col not in seen_headers: final_headers.append(col); seen_headers.add(col)
\* on st = [headers, seen].
AppendUnseen(st, col) ==
    IF col \notin st.seen
    THEN [headers |-> Append(st.headers, col), seen |-> st.seen \cup {col}]
    ELSE st

AppendAllUnseen(st, cols) ==
    LET F[i \in 0..Len(cols)] ==
            IF i = 0 THEN st ELSE AppendUnseen(F[i-1], cols[i])
    IN F[Len(cols)]

\* AppendHeader that never appends the separator.
AppendHeader_never(st, section_header) == st

\* if section_header and section_header not in seen_headers: ...
AppendHeader(st, section_header) ==
    IF section_header # <<>> THEN AppendUnseen(st, section_header) ELSE st

\* AggregateBlocks that places a block's columns before its separator.
AggregateBlocks_columns_first(st, blocks) ==
    LET F[i \in 0..Len(blocks)] ==
            IF i = 0 THEN st
            ELSE AppendHeader(AppendAllUnseen(F[i-1], blocks[i][2]), blocks[i][1])
    IN F[Len(blocks)]

\* for section_header, block_cols in blocks: ...
AggregateBlocks(st, blocks) ==
    LET F[i \in 0..Len(blocks)] ==
            IF i = 0 THEN st
            ELSE AppendAllUnseen(AppendHeader(F[i-1], blocks[i][1]), blocks[i][2])
    IN F[Len(blocks)]

\* MaterializeRow without the empty default cells.
MaterializeRow_no_defaults(headers, entry) ==
    DictUpdate(DictUpdate(<<>>, entry.meta), entry.dyn)

\* row = {h: "" for h in final_headers}; row.update(meta); row.update(dyn)
MaterializeRow(headers, entry) ==
    DictUpdate(DictUpdate([i \in 1..Len(headers) |-> KV(headers[i], Str(<<>>))],
                          entry.meta),
               entry.dyn)

\* Every ordering of a finite set: the orders a set iteration can take.
Orderings(S) ==
    {o \in [1..Cardinality(S) -> S] : \A i, j \in 1..Cardinality(S) : o[i] = o[j] => i = j}

-----------------------------------------------------------------------------
(* Inputs of the pipeline *)

\* The separator columns of the sections titled A and B.
SepA == <<"Section", ":", " ", "A">>

SepB == <<"Section", ":", " ", "B">>

MaxSubs == 2

MaxSections == 2

MaxQuestions == 1

SeqsUpTo(S, n) == UNION {[1..k -> S] : k \in 0..n}

Question(title, id, resp) ==
    ("questionTitle" :> title) @@ ("questionId" :> id) @@ ("questionResponse" :> resp)

SectionsOf(heads, questions, n) ==
    {h @@ ("questions" :> qs) : h \in heads, qs \in SeqsUpTo(questions, n)}

\* Submissions with and without a sections list.
SubmissionsOf(metas, sections) ==
    {m @@ ("sections" :> ss) : m \in metas, ss \in SeqsUpTo(sections, MaxSections)}
    \cup metas

\* A scalar question, an unnamed question, and a question with a nested
\* response two of whose keys sanitize to the same column.
Questions ==
    { Question(Str(<<"X">>), Null, Str(<<"a">>)),
      Question(Null, Null, Str(<<"b">>)),
      Question(Str(<<"Y", "?">>), Str(<<"7">>),
               Dict(<<KV(<<"k">>, Num(<<"7">>)),
                      KV(<<"k", "-">>, List(<<Null, Str(<<"a">>)>>))>>)) }

SectionHeads ==
    { ("sectionTitle" :> Str(<<"A">>)), ("sectionTitle" :> Str(<<"B">>)) }

SubMetas == { ("submissionId" :> Num(<<"7">>)) @@ ("gapId" :> Null) }

Submissions == SubmissionsOf(SubMetas, SectionsOf(SectionHeads, Questions, MaxQuestions))

RootMetas == { <<>>, ("applicationId" :> Str(<<"a">>)) }

\* run_pipeline's fixed keywords, and main's --no-section-separators.
Args ==
    [include_question_id : {FALSE}, prefix_section_title : {FALSE},
     section_separators : BOOLEAN, drop_constants : {TRUE},
     constant_ignore_empty : {FALSE}, keep_col : {<<>>}]

-----------------------------------------------------------------------------
(* The pipeline: run_pipeline (cli.py) and main (applications_to_csv.py) *)

Init ==
    /\ pc = "pairs"
    /\ args \in Args
    /\ cache = <<>>
    /\ seen_headers = Range(meta_order)
    /\ final_headers = FromKeys(meta_order)
    /\ all_cols_seen = Range(FromKeys(meta_order))
    /\ rows = <<>>
    /\ removed = <<>>
    /\ written = <<>>
    /\ fn_in = <<>>
    /\ fn_out = <<>>
    /\ NoRequest
    /\ NoAggregation

\* final_headers and seen_headers after a pass of appends.
SetHeaders(st) ==
    /\ final_headers' = st.headers
    /\ seen_headers' = st.seen

\* The loop body after extract_row returned r = (meta, dyn, blocks).
Aggregate(r) ==
    /\ cache' = Append(cache, r)
    /\ all_cols_seen' = all_cols_seen \cup KeySet(r.meta) \cup KeySet(r.dyn)
    /\ SetHeaders(AggregateBlocks([headers |-> final_headers, seen |-> seen_headers],
                                  r.blocks))

\* One pass of "for root_meta, sub in pairs".
ProcessPair(root_meta, sub) ==
    /\ pc = "pairs"
    /\ Len(cache) < MaxSubs
    /\ Aggregate(extract_row(root_meta, sub, args.include_question_id,
                             args.prefix_section_title, args.section_separators))
    /\ UNCHANGED <<pc, args, rows, removed, written, fn_in, fn_out>>
    /\ UNCHANGED network_vars

\* The rows, once the fallback pass has left the headers st.
MaterializeAll(st) ==
    /\ SetHeaders(st)
    /\ rows' = [i \in 1..Len(cache) |-> MaterializeRow(st.headers, cache[i])]

\* The loop over pairs has ended: the fallback pass over all_cols_seen, in
\* whatever order the set iterates (only the order of the names not yet seen
\* has an effect), then the rows.
Materialize ==
    /\ pc = "pairs"
    /\ \E order \in Orderings(all_cols_seen \ seen_headers) :
          MaterializeAll(AppendAllUnseen([headers |-> final_headers,
                                          seen |-> seen_headers], order))
    /\ pc' = "drop"
    /\ UNCHANGED <<args, cache, all_cols_seen, removed, written, fn_in, fn_out>>
    /\ UNCHANGED network_vars

\* SetDropped that leaves final_headers as it was before the filter.
SetDropped_keeps_headers(res) ==
    /\ rows' = res.rows
    /\ removed' = res.remove
    /\ final_headers' = final_headers

\* rows, _ = drop_constant_columns(...); if rows: final_headers = list(rows[0].keys())
SetDropped(res) ==
    /\ rows' = res.rows
    /\ removed' = res.remove
    /\ final_headers' = IF res.rows # <<>> THEN DictKeys(res.rows[1]) ELSE final_headers

\* "if args.drop_constants and rows:" with its body, or nothing.
DropConstants ==
    /\ pc = "drop"
    /\ IF args.drop_constants /\ rows # <<>>
       THEN SetDropped(drop_constant_columns(rows, args.constant_ignore_empty,
                                             Append(args.keep_col, SectionPattern)))
       ELSE UNCHANGED <<rows, removed, final_headers>>
    /\ pc' = "write"
    /\ UNCHANGED <<args, cache, seen_headers, all_cols_seen, written, fn_in, fn_out>>
    /\ UNCHANGED network_vars

\* WriteCsv that writes the header only when there are rows.
WriteCsv_header_with_rows ==
    /\ pc = "write"
    /\ written' = [header |-> IF rows # <<>> THEN final_headers ELSE <<>>,
                   rows |-> [i \in 1..Len(rows) |->
                               [j \in 1..Len(final_headers) |->
                                   RowGet(rows[i], final_headers[j])]]]
    /\ pc' = "done"
    /\ UNCHANGED <<args, cache, seen_headers, final_headers, all_cols_seen, rows,
                   removed, fn_in, fn_out>>
    /\ UNCHANGED network_vars

\* csv.DictWriter(fieldnames=final_headers, extrasaction="ignore"):
\* the header, then of each row the cells of the header's columns.
WriteCsv ==
    /\ pc = "write"
    /\ written' = [header |-> final_headers,
                   rows |-> [i \in 1..Len(rows) |->
                               [j \in 1..Len(final_headers) |->
                                   RowGet(rows[i], final_headers[j])]]]
    /\ pc' = "done"
    /\ UNCHANGED <<args, cache, seen_headers, final_headers, all_cols_seen, rows,
                   removed, fn_in, fn_out>>
    /\ UNCHANGED network_vars

Next ==
    \/ \E root_meta \in RootMetas, sub \in Submissions : ProcessPair(root_meta, sub)
    \/ Materialize
    \/ DropConstants
    \/ WriteCsv

Spec == Init /\ [][Next]_vars

\* The pipeline over sections whose titles are plain, whitespace-only, empty
\* or missing, under every --constant-ignore-empty and with and without a
\* --keep-col pattern.
SeparatorSectionHeads ==
    { ("sectionTitle" :> Str(<<"A">>)), ("sectionTitle" :> Str(<<" ", "\t">>)),
      ("sectionTitle" :> Str(<<>>)), <<>> }

SeparatorQuestions ==
    { Question(Str(<<"X">>), Null, Str(<<"a">>)), Question(Str(<<"X">>), Null, Str(<<"b">>)) }

SeparatorSubmissions ==
    SubmissionsOf(SubMetas, SectionsOf(SeparatorSectionHeads, SeparatorQuestions, MaxQuestions))

SeparatorArgs ==
    [include_question_id : {FALSE}, prefix_section_title : {FALSE},
     section_separators : {TRUE}, drop_constants : {TRUE},
     constant_ignore_empty : BOOLEAN,
     keep_col : {<<>>, <<[anchored |-> FALSE, lit |-> <<"X">>, ws |-> FALSE]>>}]

InitSeparators ==
    /\ pc = "pairs"
    /\ args \in SeparatorArgs
    /\ cache = <<>>
    /\ seen_headers = Range(meta_order)
    /\ final_headers = FromKeys(meta_order)
    /\ all_cols_seen = Range(FromKeys(meta_order))
    /\ rows = <<>>
    /\ removed = <<>>
    /\ written = <<>>
    /\ fn_in = <<>>
    /\ fn_out = <<>>
    /\ NoRequest
    /\ NoAggregation

NextSeparators ==
    \/ \E sub \in SeparatorSubmissions : ProcessPair(<<>>, sub)
    \/ Materialize
    \/ DropConstants
    \/ WriteCsv

SpecSeparators == InitSeparators /\ [][NextSeparators]_vars

-----------------------------------------------------------------------------
(* Calls of single functions: pc goes from "call" to "ret", fn_in holds the
   arguments and fn_out the returned value. *)

\* The variables of the pipeline, which a single call does not use.
NoPipeline ==
    /\ args = <<>>
    /\ cache = <<>>
    /\ seen_headers = {}
    /\ final_headers = <<>>
    /\ all_cols_seen = {}
    /\ rows = <<>>
    /\ removed = <<>>
    /\ written = <<>>

Return(v) ==
    /\ pc = "call"
    /\ fn_out' = v
    /\ pc' = "ret"
    /\ UNCHANGED <<args, cache, seen_headers, final_headers, all_cols_seen, rows,
                   removed, written, fn_in>>
    /\ UNCHANGED network_vars

\* Sequences over S of at most n members, none of them twice.
DistinctSeqsUpTo(S, n) == {q \in SeqsUpTo(S, n) : NoDup(q)}

(* drop_constant_columns on materialized rows: every row holds the columns of
   the header, in the header's order. *)

MaxRows == 2

FilterColumns == <<SepA, <<"X">>, <<"Y">>>>

FilterCells == { Str(<<>>), Str(<<" ">>), Str(<<"X">>), Num(<<"7">>) }

FilterRows ==
    {[j \in 1..Len(FilterColumns) |-> KV(FilterColumns[j], cells[j])] :
        cells \in [1..Len(FilterColumns) -> FilterCells]}

FilterPatterns ==
    { <<>>, <<SectionPattern>>, <<[anchored |-> FALSE, lit |-> <<"Y">>, ws |-> FALSE]>> }

InitFilter ==
    /\ pc = "call"
    /\ fn_in \in [rows : SeqsUpTo(FilterRows, MaxRows), ignore_empty : BOOLEAN,
                  keep_patterns : FilterPatterns]
    /\ fn_out = <<>>
    /\ NoPipeline
    /\ NoRequest
    /\ NoAggregation

CallDropConstantColumns ==
    Return(drop_constant_columns(fn_in.rows, fn_in.ignore_empty, fn_in.keep_patterns))

NextFilter == CallDropConstantColumns

SpecFilter == InitFilter /\ [][NextFilter]_vars

(* extract_row on one submission whose questions all have scalar responses:
   questions without title and id, and questions that share the title X. *)

ExtractMaxQuestions == 3

ExtractQuestionSet ==
    { Question(Null, Null, Str(<<"a">>)), Question(Null, Null, Str(<<"b">>)),
      Question(Str(<<"X">>), Null, Str(<<"a">>)),
      Question(Str(<<"X">>), Str(<<"7">>), Str(<<"b">>)) }

ExtractSubmissions ==
    SubmissionsOf(SubMetas, SectionsOf({("sectionTitle" :> Str(<<"A">>))},
                                       ExtractQuestionSet, ExtractMaxQuestions))

InitExtract ==
    /\ pc = "call"
    /\ fn_in \in [root_meta : {<<>>}, sub : ExtractSubmissions, include_qid : BOOLEAN,
                  prefix_section : BOOLEAN, add_section_separators : {TRUE}]
    /\ fn_out = <<>>
    /\ NoPipeline
    /\ NoRequest
    /\ NoAggregation

CallExtractRow ==
    Return(extract_row(fn_in.root_meta, fn_in.sub, fn_in.include_qid,
                       fn_in.prefix_section, fn_in.add_section_separators))

NextExtract == CallExtractRow

SpecExtract == InitExtract /\ [][NextExtract]_vars

(* flatten on scalars, sequences and mappings of mappings; among the keys are
   keys that differ only in characters sanitize_col removes, and a key that
   reads like a path through a nested mapping. *)

MaxKeys == 2

MaxInnerKeys == 1

FlattenKeys == { <<"a">>, <<"a", "-">>, <<"b">>, <<"a", "_", "b">> }

FlattenLeaves ==
    { Num(<<"7">>), Str(<<"a">>), Null, List(<<Num(<<"7">>), Null>>) }

\* The mappings of at most n keys with values in V, in every insertion order.
DictsOver(V, n) ==
    UNION {{Dict([i \in 1..Len(ks) |-> KV(ks[i], vs[i])]) : vs \in [1..Len(ks) -> V]} :
              ks \in DistinctSeqsUpTo(FlattenKeys, n)}

FlattenValues ==
    FlattenLeaves
    \cup DictsOver(FlattenLeaves \cup DictsOver(FlattenLeaves, MaxInnerKeys), MaxKeys)

InitFlatten ==
    /\ pc = "call"
    /\ fn_in \in [prefix : {<<"Q">>}, value : FlattenValues]
    /\ fn_out = <<>>
    /\ NoPipeline
    /\ NoRequest
    /\ NoAggregation

CallFlatten == Return(flatten(fn_in.prefix, fn_in.value))

NextFlatten == CallFlatten

SpecFlatten == InitFlatten /\ [][NextFlatten]_vars

-----------------------------------------------------------------------------
(* Properties of the header aggregation and of the materialized rows *)

\* The candidates of one row in traversal order: per block its separator
\* (when there is one), then its columns.
RowTraversal(entry) ==
    Concat([b \in 1..Len(entry.blocks) |->
               (IF entry.blocks[b][1] # <<>> THEN <<entry.blocks[b][1]>> ELSE <<>>)
               \o entry.blocks[b][2]])

\* The columns one row produced.
Produced(entry) == KeySet(entry.meta) \cup KeySet(entry.dyn)

IndexOf(seq, x) == CHOOSE i \in 1..Len(seq) : seq[i] = x

\* C1: the global header never holds the same column name twice, after every
\* submission of the aggregation loop, after the fallback pass and at the end.
C1_HeaderUnique == NoDup(final_headers)

\* C1's case: two submissions share a column and one of them names the same
\* column in two of its blocks.
C1_Witness ==
    /\ pc = "drop"
    /\ Len(cache) = 2
    /\ KeySet(cache[1].dyn) \cap KeySet(cache[2].dyn) # {}
    /\ \E i \in 1..2 : ~NoDup(RowTraversal(cache[i]))

\* C2: while the aggregation runs (each submission, then the fallback pass) the
\* header before a step is a prefix of the header after it.
C2_AppendOnly == [][pc = "pairs" => IsPrefix(final_headers, final_headers')]_vars

\* C2's case: the second submission both repeats a column of the first and
\* brings a new one, which the header holds after the first one's columns.
C2_Witness ==
    /\ pc = "pairs"
    /\ Len(cache) = 2
    /\ \E c \in KeySet(cache[2].dyn), d \in KeySet(cache[1].dyn) :
          /\ c \notin KeySet(cache[1].dyn)
          /\ d \in KeySet(cache[2].dyn)
          /\ IndexOf(final_headers, d) < IndexOf(final_headers, c)

C4_RowsRectangular ==
    pc \in {"drop", "write", "done"} =>
        /\ Len(rows) = Len(cache)
        /\ \A i \in 1..Len(rows) :
              /\ KeySet(rows[i]) = Range(final_headers)
              /\ Len(rows[i]) = Len(final_headers)
              /\ \A c \in Range(final_headers) :
                    c \notin Produced(cache[i]) => DictGet(rows[i], c) = Str(<<>>)

\* C4's case: a materialized row lacks a column another submission produced.
C4_Witness ==
    /\ pc = "drop"
    /\ \E i, j \in 1..Len(rows) :
          \E c \in Produced(cache[j]) :
              c \notin Produced(cache[i]) /\ DictGet(rows[i], c) = Str(<<>>)

\* C5: after the aggregation every key of every row's metadata map and data
\* map is a column of the header.
C5_NothingDropped ==
    pc = "drop" => \A i \in 1..Len(cache) : Produced(cache[i]) \subseteq Range(final_headers)

\* C5's case: two submissions with question columns, flattened ones among them.
C5_Witness ==
    /\ pc = "drop"
    /\ Len(cache) = 2
    /\ \A i \in 1..2 : Cardinality(KeySet(cache[i].dyn)) >= 3
    /\ KeySet(cache[1].dyn) # KeySet(cache[2].dyn)

\* The separator columns extract_row produced for the cached submissions.
SeparatorsProduced ==
    UNION {{cache[k].blocks[b][1] : b \in 1..Len(cache[k].blocks)} : k \in 1..Len(cache)}
    \ {<<>>}

\* C6: once constant-column dropping has run, every separator column that
\* extract_row produced is still a key of every row, with the empty value, and a
\* column of the header that is written.
C6_SeparatorsKept ==
    /\ pc \in {"write", "done"} =>
          \A sep \in SeparatorsProduced :
              /\ sep \in Range(final_headers)
              /\ \A i \in 1..Len(rows) :
                    HasKey(rows[i], sep) /\ DictGet(rows[i], sep) = Str(<<>>)
    /\ pc = "done" => SeparatorsProduced \subseteq Range(written.header)

\* C6's case: the filter removed the question column while the rows hold the
\* separators of a whitespace-only title, of a missing title and of a plain title.
C6_Witness ==
    /\ pc = "done"
    /\ <<"X">> \in Range(removed)
    /\ Len(rows) = 2
    /\ {<<"Section", ":", " ">>, <<"Section", ":", " ", "Untitled", " ", "Section">>, SepA}
           \subseteq SeparatorsProduced

-----------------------------------------------------------------------------
(* Properties of the constant-column filter *)

\* str(v).strip() == "": only text of nothing but whitespace is blank.
Blank(v) == v.t = "str" /\ \A i \in 1..Len(v.s) : v.s[i] \in Whitespace

\* The cells of column c that count for constancy in the call at hand.
Counted(c) ==
    {v \in {DictGet(fn_in.rows[i], c) : i \in 1..Len(fn_in.rows)} :
        ~(fn_in.ignore_empty /\ Blank(v))}

\* Column c matches no keep pattern and its counted cells are all equal.
Removable(c) ==
    /\ ~force_keep(c, fn_in.keep_patterns)
    /\ \A v, w \in Counted(c) : v = w

\* Column c is gone from every returned row.
Deleted(c) == \A i \in 1..Len(fn_out.rows) : ~HasKey(fn_out.rows[i], c)

\* The cells of column c over the rows passed in.
Column(c) == [i \in 1..Len(fn_in.rows) |-> DictGet(fn_in.rows[i], c)]

\* C7: drop_constant_columns deletes a column exactly when no keep pattern
\* matches it and its distinct values (blank ones discarded under ignore_empty)
\* number at most one; a column deleted from one row is deleted from every row;
\* the returned list names exactly the deleted columns, each once.  A column
\* holding "X" in every row goes; a column holding "" and one other value stays
\* without ignore_empty and goes with it.
C7_RemovedIffConstant ==
    pc = "ret" /\ fn_in.rows # <<>> =>
        /\ \A c \in Range(FilterColumns) :
              /\ Deleted(c) <=> Removable(c)
              /\ (\E i \in 1..Len(fn_out.rows) : ~HasKey(fn_out.rows[i], c)) => Deleted(c)
              /\ c \in Range(fn_out.remove) <=> Deleted(c)
        /\ Range(fn_out.remove) \subseteq Range(FilterColumns)
        /\ NoDup(fn_out.remove)
        /\ (fn_in.keep_patterns = <<>> /\ Range(Column(<<"X">>)) = {Str(<<"X">>)})
              => Deleted(<<"X">>)
        /\ (fn_in.keep_patterns = <<>> /\ Range(Column(<<"X">>)) = {Str(<<>>), Str(<<"X">>)})
              => (Deleted(<<"X">>) <=> fn_in.ignore_empty)

\* C7's case: under ignore_empty and the separator pattern, the column that is
\* "X" in both rows and the column holding "" and "X" are removed, and the
\* constant separator column is kept.
C7_Witness ==
    /\ pc = "ret"
    /\ fn_in.ignore_empty
    /\ fn_in.keep_patterns = <<SectionPattern>>
    /\ Column(<<"X">>) = <<Str(<<"X">>), Str(<<"X">>)>>
    /\ Column(<<"Y">>) = <<Str(<<>>), Str(<<"X">>)>>
    /\ fn_out.remove = <<<<"X">>, <<"Y">>>>
    /\ \A i \in 1..2 : DictKeys(fn_out.rows[i]) = <<SepA>>

\* C8: drop_constant_columns returns as many rows as it was given, in the same
\* order, and in every row each column that was not removed keeps its value
\* and its position relative to the other kept columns.
C8_FrameKept ==
    pc = "ret" =>
        /\ Len(fn_out.rows) = Len(fn_in.rows)
        /\ \A i \in 1..Len(fn_in.rows) :
              /\ KeySet(fn_out.rows[i]) = KeySet(fn_in.rows[i]) \ Range(fn_out.remove)
              /\ NoDup(DictKeys(fn_out.rows[i]))
              /\ \A c \in KeySet(fn_out.rows[i]) :
                    DictGet(fn_out.rows[i], c) = DictGet(fn_in.rows[i], c)
              /\ \A c, d \in KeySet(fn_out.rows[i]) :
                    IndexOf(DictKeys(fn_out.rows[i]), c) < IndexOf(DictKeys(fn_out.rows[i]), d)
                    <=> IndexOf(DictKeys(fn_in.rows[i]), c) < IndexOf(DictKeys(fn_in.rows[i]), d)

\* C8's case: the middle column is removed from two rows that differ in both
\* of the columns that stay.
C8_Witness ==
    /\ pc = "ret"
    /\ Len(fn_in.rows) = 2
    /\ fn_out.remove = <<<<"X">>>>
    /\ \A i \in 1..2 : DictKeys(fn_out.rows[i]) = <<SepA, <<"Y">>>>
    /\ DictGet(fn_in.rows[1], SepA) # DictGet(fn_in.rows[2], SepA)
    /\ DictGet(fn_in.rows[1], <<"Y">>) # DictGet(fn_in.rows[2], <<"Y">>)

-----------------------------------------------------------------------------
(* Properties of extract_row's column names *)

\* The questions of the submission passed in, in section and question order.
QuestionsIn(sub) ==
    IF "sections" \in DOMAIN sub
    THEN Concat([i \in 1..Len(sub.sections) |-> sub.sections[i].questions])
    ELSE <<>>

\* The columns the returned blocks list, in block order.
BlockColumns(blocks) == Concat([b \in 1..Len(blocks) |-> blocks[b][2]])

\* C9: with question-id suffixing disabled, every scalar question of the
\* submission has a column of its own that holds its response, however many
\* questions share a title or have neither title nor id.
C9_NoOverwrite ==
    pc = "ret" /\ ~fn_in.include_qid =>
        /\ Len(BlockColumns(fn_out.blocks)) = Len(QuestionsIn(fn_in.sub))
        /\ NoDup(BlockColumns(fn_out.blocks))
        /\ \A k \in 1..Len(QuestionsIn(fn_in.sub)) :
              /\ HasKey(fn_out.dyn, BlockColumns(fn_out.blocks)[k])
              /\ DictGet(fn_out.dyn, BlockColumns(fn_out.blocks)[k])
                    = QuestionsIn(fn_in.sub)[k].questionResponse

-----------------------------------------------------------------------------
(* Properties of flatten *)

RECURSIVE LeafSeq(_)
\* The scalar and sequence-valued leaves reachable through mapping keys.
LeafSeq(v) ==
    IF v.t = "dict"
    THEN Concat([i \in 1..Len(v.items) |-> LeafSeq(v.items[i].v)])
    ELSE <<v>>

\* C10: flatten loses no leaf: it returns as many columns as the value has
\* scalar and sequence-valued leaves, and every leaf is the value of a column.
C10_NoLeafLost ==
    pc = "ret" =>
        /\ Len(fn_out) = Len(LeafSeq(fn_in.value))
        /\ \A k \in 1..Len(LeafSeq(fn_in.value)) :
              \E i \in 1..Len(fn_out) : fn_out[i].v = LeafCell(LeafSeq(fn_in.value)[k])

\* The columns of the leaves one level down: for every key k of value whose
\* value is a mapping and every key of that mapping with a leaf value, the
\* column of the pair and the cell of the leaf.
DeeperCells(prefix, value) ==
    UNION {{[col |-> sanitize_col(sanitize_col(prefix \o <<"_">> \o value.items[i].k)
                                  \o <<"_">> \o value.items[i].v.items[m].k),
             cell |-> LeafCell(value.items[i].v.items[m].v)] :
               m \in {m \in 1..Len(value.items[i].v.items) :
                         value.items[i].v.items[m].v.t # "dict"}} :
              i \in {i \in 1..Len(value.items) : value.items[i].v.t = "dict"}}

\* The columns of the scalar values of value's own keys.
ShallowColumns(prefix, value) ==
    {sanitize_col(prefix \o <<"_">> \o value.items[j].k) :
        j \in {j \in 1..Len(value.items) : IsScalar(value.items[j].v)}}

\* C11: where the column of a nested key is also the column of a shallower
\* scalar key, the returned column holds a deeper value, in whichever order the
\* keys occur in the mapping.
C11_DeeperWins ==
    pc = "ret" /\ fn_in.value.t = "dict" =>
        \A c \in ShallowColumns(fn_in.prefix, fn_in.value) :
            (\E d \in DeeperCells(fn_in.prefix, fn_in.value) : d.col = c)
            => \E d \in DeeperCells(fn_in.prefix, fn_in.value) :
                  d.col = c /\ DictGet(fn_out, c) = d.cell

-----------------------------------------------------------------------------
(* sanitize_col on every string of at most MaxLen characters over letters,
   digits, whitespace, underscores and other punctuation *)

MaxLen == 4

SanitizeAlphabet == {"a", "7", " ", "\t", "_", "-", "?"}

InitSanitize ==
    /\ pc = "call"
    /\ fn_in \in SeqsUpTo(SanitizeAlphabet, MaxLen)
    /\ fn_out = <<>>
    /\ NoPipeline
    /\ NoRequest
    /\ NoAggregation

CallSanitizeCol == Return(sanitize_col(fn_in))

NextSanitize == CallSanitizeCol

SpecSanitize == InitSanitize /\ [][NextSanitize]_vars

\* Alphanumeric runs separated by single underscores, none leading or trailing.
Identifier(s) ==
    /\ s # <<>>
    /\ \A i \in 1..Len(s) : s[i] \in NonAlnum => s[i] = "_"
    /\ s[1] # "_" /\ s[Len(s)] # "_"
    /\ \A i \in 1..(Len(s) - 1) : ~(s[i] = "_" /\ s[i+1] = "_")

\* C12: sanitize_col applied to its own result returns that result, and the
\* result is 'unnamed' or alphanumeric runs separated by single underscores
\* with no underscore at either end.
C12_SanitizeIdempotent ==
    pc = "ret" =>
        /\ sanitize_col(fn_out) = fn_out
        /\ fn_out = <<"unnamed">> \/ Identifier(fn_out)
        /\ fn_out = <<"unnamed">> <=> \A i \in 1..Len(fn_in) : fn_in[i] \in NonAlnum

\* C12's case: a string that starts with punctuation and holds whitespace or
\* punctuation between two alphanumeric runs.
C12_Witness ==
    /\ pc = "ret"
    /\ Len(fn_in) = 4
    /\ fn_in[1] \in Punct /\ fn_in[3] \in NonAlnum \ {"_"}
    /\ fn_out = <<"a", "_", "7">>

-----------------------------------------------------------------------------
(* extract_row with separators on submissions whose sections are named by
   sectionTitle, by sectionId or not at all, and whose questions have scalar,
   sequence and mapping responses *)

BlockMaxQuestions == 2

BlockSectionHeads ==
    { ("sectionTitle" :> Str(<<"A">>)) @@ ("sectionId" :> Str(<<"7">>)),
      ("sectionTitle" :> Null) @@ ("sectionId" :> Str(<<"B">>)),
      <<>> }

BlockQuestions ==
    { Question(Str(<<"X">>), Null, Str(<<"a">>)),
      Question(Str(<<"Y">>), Null, List(<<Num(<<"7">>), Null>>)),
      Question(Str(<<"Z">>), Str(<<"7">>),
               Dict(<<KV(<<"k">>, Num(<<"7">>)), KV(<<"b">>, Str(<<"a">>))>>)),
      Question(Str(<<"Z">>), Str(<<"7">>),
               Dict(<<KV(<<"k">>, Num(<<"7">>)), KV(<<"k", "-">>, Str(<<"a">>))>>)) }

BlockSubmissions ==
    SubmissionsOf(SubMetas, SectionsOf(BlockSectionHeads, BlockQuestions, BlockMaxQuestions))

InitBlocks ==
    /\ pc = "call"
    /\ fn_in \in [root_meta : RootMetas, sub : BlockSubmissions, include_qid : BOOLEAN,
                  prefix_section : {FALSE}, add_section_separators : {TRUE}]
    /\ fn_out = <<>>
    /\ NoPipeline
    /\ NoRequest
    /\ NoAggregation

CallExtractRowBlocks ==
    Return(extract_row(fn_in.root_meta, fn_in.sub, fn_in.include_qid,
                       fn_in.prefix_section, fn_in.add_section_separators))

NextBlocks == CallExtractRowBlocks

SpecBlocks == InitBlocks /\ [][NextBlocks]_vars

\* The sections of the submission passed in.
SectionsIn(sub) == IF "sections" \in DOMAIN sub THEN sub.sections ELSE <<>>

\* sectionTitle, else sectionId, else 'Untitled Section'.
DisplayTitle(sec) ==
    IF "sectionTitle" \in DOMAIN sec /\ sec.sectionTitle.t = "str" /\ sec.sectionTitle.s # <<>>
    THEN sec.sectionTitle.s
    ELSE IF "sectionId" \in DOMAIN sec /\ sec.sectionId.t = "str" /\ sec.sectionId.s # <<>>
         THEN sec.sectionId.s
         ELSE <<"Untitled", " ", "Section">>

\* What the questions of a section answer with, leaf by leaf: a scalar, a
\* sequence, or each leaf of a mapping.
SectionLeaves(sec) ==
    Concat([k \in 1..Len(sec.questions) |-> LeafSeq(sec.questions[k].questionResponse)])

\* C13: with separators enabled extract_row returns one block per section in
\* section order; block i starts with 'Section: ' and the display title of
\* section i, which is a data column of the row; its column list holds one data
\* column per scalar question, per leaf of a mapping response and per sequence
\* response of section i; without a sections list there are no blocks and no
\* data columns.
C13_BlockPerSection ==
    pc = "ret" =>
        /\ Len(fn_out.blocks) = Len(SectionsIn(fn_in.sub))
        /\ \A i \in 1..Len(SectionsIn(fn_in.sub)) :
              /\ fn_out.blocks[i][1]
                    = <<"Section", ":", " ">> \o DisplayTitle(SectionsIn(fn_in.sub)[i])
              /\ HasKey(fn_out.dyn, fn_out.blocks[i][1])
              /\ Range(fn_out.blocks[i][2]) \subseteq KeySet(fn_out.dyn)
              /\ Len(fn_out.blocks[i][2]) = Len(SectionLeaves(SectionsIn(fn_in.sub)[i]))
        /\ "sections" \notin DOMAIN fn_in.sub =>
              fn_out.blocks = <<>> /\ fn_out.dyn = <<>>

-----------------------------------------------------------------------------
(* Documents of the API and coerce_to_pairs.  A document is a JSON value; the
   keys of its objects are strings of one word. *)

\* d.get(k) on a JSON object d.
DocGet(d, k) == IF HasKey(d.items, <<k>>) THEN DictGet(d.items, <<k>>) ELSE Null

\* isinstance(data, dict) and isinstance(data.get(k), <type t>)
HasField(data, k, t) == data.t = "dict" /\ DocGet(data, k).t = t

\* {k: v for k, v in app.items() if k != "submissions"}
RootMeta(app) ==
    LET Other(e) == e.k # <<"submissions">>
    IN Dict(SelectSeq(app.items, Other))

\* app.get("submissions", []) or [], as the sequence the for loop runs over
\* (a mapping is iterated by its keys).
SubsOf(app) ==
    IF ~Truthy(DocGet(app, "submissions")) THEN <<>>
    ELSE IF DocGet(app, "submissions").t = "dict"
         THEN [i \in 1..Len(DocGet(app, "submissions").items) |->
                  Str(DocGet(app, "submissions").items[i].k)]
         ELSE DocGet(app, "submissions").items

\* for sub in subs: pairs.append((root_meta, sub))
PairsOf(root_meta, subs) == [i \in 1..Len(subs) |-> <<root_meta, subs[i]>>]

Returned(pairs) == [err |-> "", pairs |-> pairs]

Raised(err) == [err |-> err, pairs |-> <<>>]

\* coerce_to_pairs whose last branch returns no pairs instead of raising.
coerce_to_pairs_no_raise(data) ==
    IF HasField(data, "applications", "list")
    THEN IF \A i \in 1..Len(DocGet(data, "applications").items) :
                DocGet(data, "applications").items[i].t = "dict"
         THEN Returned(Concat([i \in 1..Len(DocGet(data, "applications").items) |->
                                  PairsOf(RootMeta(DocGet(data, "applications").items[i]),
                                          SubsOf(DocGet(data, "applications").items[i]))]))
         ELSE Raised("AttributeError")
    ELSE IF HasField(data, "applications", "dict")
    THEN Returned(PairsOf(RootMeta(DocGet(data, "applications")),
                          SubsOf(DocGet(data, "applications"))))
    ELSE IF HasField(data, "submissions", "list")
    THEN Returned(PairsOf(RootMeta(data), DocGet(data, "submissions").items))
    ELSE IF data.t = "list"
    THEN Returned(PairsOf(Dict(<<>>), data.items))
    ELSE IF data.t = "dict" /\ (HasKey(data.items, <<"submissionId">>)
                                \/ HasKey(data.items, <<"sections">>))
    THEN Returned(<<<<Dict(<<>>), data>>>>)
    ELSE Returned(<<>>)

\* The result: the pairs, or the exception raised (app.items() of an
\* application that is not an object raises AttributeError).
coerce_to_pairs(data) ==
    IF HasField(data, "applications", "list")
    THEN IF \A i \in 1..Len(DocGet(data, "applications").items) :
                DocGet(data, "applications").items[i].t = "dict"
         THEN Returned(Concat([i \in 1..Len(DocGet(data, "applications").items) |->
                                  PairsOf(RootMeta(DocGet(data, "applications").items[i]),
                                          SubsOf(DocGet(data, "applications").items[i]))]))
         ELSE Raised("AttributeError")
    ELSE IF HasField(data, "applications", "dict")
    THEN Returned(PairsOf(RootMeta(DocGet(data, "applications")),
                          SubsOf(DocGet(data, "applications"))))
    ELSE IF HasField(data, "submissions", "list")
    THEN Returned(PairsOf(RootMeta(data), DocGet(data, "submissions").items))
    ELSE IF data.t = "list"
    THEN Returned(PairsOf(Dict(<<>>), data.items))
    ELSE IF data.t = "dict" /\ (HasKey(data.items, <<"submissionId">>)
                                \/ HasKey(data.items, <<"sections">>))
    THEN Returned(<<<<Dict(<<>>), data>>>>)
    ELSE Raised("ValueError")

(* coerce_to_pairs on documents of the five recognized shapes and on
   documents of none of them *)

MaxApps == 2

MaxSubsPerApp == 2

Submission(id) == Dict(<<KV(<<"submissionId">>, Num(<<id>>))>>)

CoerceSubmissions ==
    { Submission("1"), Submission("2"), Dict(<<KV(<<"sections">>, List(<<>>))>>) }

CoerceSubLists == {List(l) : l \in SeqsUpTo(CoerceSubmissions, MaxSubsPerApp)}

\* Applications without, with a null and with a list of submissions, the
\* submissions before or after the other field.
CoerceApps ==
    { Dict(<<KV(<<"applicationId">>, Str(<<"a">>))>>),
      Dict(<<KV(<<"applicationId">>, Str(<<"a">>)), KV(<<"submissions">>, Null)>>) }
    \cup {Dict(<<KV(<<"applicationId">>, Str(<<"a">>)), KV(<<"submissions">>, l)>>) :
             l \in CoerceSubLists}
    \cup {Dict(<<KV(<<"submissions">>, l), KV(<<"applicationFormName">>, Str(<<"X">>))>>) :
             l \in CoerceSubLists}

\* The fields a document has beside its applications.
CoerceExtras ==
    { <<>>, <<KV(<<"submissions">>, List(<<Submission("7")>>))>>,
      <<KV(<<"submissionId">>, Num(<<"7">>))>> }

CoerceRecognized ==
    {Dict(<<KV(<<"applications">>, List(apps))>> \o x) :
        apps \in SeqsUpTo(CoerceApps, MaxApps), x \in CoerceExtras}
    \cup {Dict(<<KV(<<"applications">>, app)>> \o x) : app \in CoerceApps, x \in CoerceExtras}
    \cup {Dict(<<KV(<<"applicationId">>, Str(<<"a">>)), KV(<<"submissions">>, l)>>) :
             l \in CoerceSubLists}
    \cup CoerceSubLists
    \cup CoerceSubmissions
    \cup {Dict(<<KV(<<"applications">>, Str(<<"a">>)), KV(<<"sections">>, List(<<>>))>>)}

CoerceUnrecognized ==
    { Null, Str(<<"a">>), Num(<<"7">>), Dict(<<>>),
      Dict(<<KV(<<"Message">>, Str(<<"a">>))>>),
      Dict(<<KV(<<"applications">>, Str(<<"a">>))>>),
      Dict(<<KV(<<"applications">>, Null), KV(<<"submissions">>, Null)>>),
      Dict(<<KV(<<"submissions">>, Submission("1"))>>),
      Dict(<<KV(<<"submission">>, List(<<Submission("1")>>))>>) }

InitCoerce ==
    /\ pc = "call"
    /\ fn_in \in CoerceRecognized \cup CoerceUnrecognized
    /\ fn_out = <<>>
    /\ NoPipeline
    /\ NoRequest
    /\ NoAggregation

CallCoerceToPairs == Return(coerce_to_pairs(fn_in))

NextCoerce == CallCoerceToPairs

SpecCoerce == InitCoerce /\ [][NextCoerce]_vars

\* The object that encloses the submissions of a recognized document, each
\* with the submissions it encloses: the applications of a list, the
\* applications object, the document itself, or nothing.
Enclosing(doc) ==
    IF HasField(doc, "applications", "list") THEN DocGet(doc, "applications").items
    ELSE IF HasField(doc, "applications", "dict") THEN <<DocGet(doc, "applications")>>
    ELSE IF HasField(doc, "submissions", "list") THEN <<doc>>
    ELSE <<>>

\* The submissions of a recognized document in document order.
SubmissionsIn(doc) ==
    IF Enclosing(doc) # <<>> \/ HasField(doc, "applications", "list")
    THEN Concat([i \in 1..Len(Enclosing(doc)) |->
                    IF DocGet(Enclosing(doc)[i], "submissions").t = "list"
                    THEN DocGet(Enclosing(doc)[i], "submissions").items ELSE <<>>])
    ELSE IF doc.t = "list" THEN doc.items
    ELSE <<doc>>

\* The document has one of the five recognized shapes.
Recognized(doc) ==
    \/ doc.t = "list"
    \/ /\ doc.t = "dict"
       /\ \/ DocGet(doc, "applications").t \in {"list", "dict"}
          \/ DocGet(doc, "submissions").t = "list"
          \/ \E i \in 1..Len(doc.items) : doc.items[i].k \in {<<"submissionId">>, <<"sections">>}

-----------------------------------------------------------------------------
(* The pipeline over questions that are titled like a separator, one with a
   scalar and one with a mapping response, under every naming option *)

TitledQuestions ==
    { Question(Str(<<"X">>), Null, Str(<<"a">>)),
      Question(Str(<<"Section", ":", " ", "A">>), Null, Str(<<"b">>)),
      Question(Str(<<"Section", ":">>), Str(<<"7">>),
               Dict(<<KV(<<" ", "A">>, Str(<<"b">>))>>)) }

TitledSubmissions ==
    SubmissionsOf(SubMetas, SectionsOf(SectionHeads, TitledQuestions, MaxQuestions))

TitledArgs ==
    [include_question_id : BOOLEAN, prefix_section_title : BOOLEAN,
     section_separators : {TRUE}, drop_constants : {TRUE},
     constant_ignore_empty : {FALSE}, keep_col : {<<>>}]

InitTitled ==
    /\ pc = "pairs"
    /\ args \in TitledArgs
    /\ cache = <<>>
    /\ seen_headers = Range(meta_order)
    /\ final_headers = FromKeys(meta_order)
    /\ all_cols_seen = Range(FromKeys(meta_order))
    /\ rows = <<>>
    /\ removed = <<>>
    /\ written = <<>>
    /\ fn_in = <<>>
    /\ fn_out = <<>>
    /\ NoRequest
    /\ NoAggregation

NextTitled ==
    \/ \E sub \in TitledSubmissions : ProcessPair(<<>>, sub)
    \/ Materialize
    \/ DropConstants
    \/ WriteCsv

SpecTitled == InitTitled /\ [][NextTitled]_vars

-----------------------------------------------------------------------------
(* Properties of the pipeline on no submissions, and of separator values *)

\* C18: when the pairs are none, the pipeline reaches its end having written
\* the nine metadata names as the header and no data row, and the filter has
\* removed nothing.
C18_HeaderOnly ==
    pc = "done" /\ cache = <<>> =>
        /\ written = [header |-> <<<<"applicationFormName">>, <<"applicationFormVersion">>,
                                   <<"applicationId">>, <<"ggisReferenceNumber">>,
                                   <<"grantAdminEmailAddress">>, <<"submissionId">>,
                                   <<"grantApplicantEmailAddress">>,
                                   <<"submittedTimeStamp">>, <<"gapId">>>>,
                      rows |-> <<>>]
        /\ rows = <<>>
        /\ removed = <<>>

\* C18's case: the run on no submissions has written its output.
C18_Witness == pc = "done" /\ cache = <<>> /\ written # <<>>

\* The name begins 'Section: '.
IsSeparatorName(c) == IsPrefix(<<"Section", ":", " ">>, c)

\* Every cell of a mapping under a separator name is the empty string.
SeparatorsEmpty(d) ==
    \A i \in 1..Len(d) : IsSeparatorName(d[i].k) => d[i].v = Str(<<>>)

\* C19: in every row extract_row returned and in every materialized row, a
\* column whose name begins 'Section: ' holds the empty string.
C19_SeparatorsEmpty ==
    /\ \A i \in 1..Len(cache) :
          SeparatorsEmpty(cache[i].meta) /\ SeparatorsEmpty(cache[i].dyn)
    /\ \A i \in 1..Len(rows) : SeparatorsEmpty(rows[i])

\* C19's case: a section titled A holds a question titled 'Section: A' that
\* is answered, and the row is materialized with both columns.
C19_Witness ==
    /\ pc = "drop"
    /\ ~args.include_question_id /\ ~args.prefix_section_title
    /\ \E i \in 1..Len(rows) :
          /\ HasKey(rows[i], SepA) /\ DictGet(rows[i], SepA) = Str(<<>>)
          /\ HasKey(rows[i], <<"Section", "_", "A">>)
          /\ DictGet(rows[i], <<"Section", "_", "A">>) = Str(<<"b">>)
          /\ cache[i].blocks[1] = <<SepA, <<<<"Section", "_", "A">>>>>>

-----------------------------------------------------------------------------
(* The request loop: run_http_json (http_client.py) and run_curl_json
   (applications_to_csv.py).  One action is one pass of "while True". *)

MaxRetries == 3

\* backoff_base = 0.4 and backoff_cap = 4.0 seconds, and the 0.5 seconds slept
\* before the first HTTP attempt, in tenths of a second.
backoff_base == 4

backoff_cap == 40

first_sleep == 5

\* What one attempt meets: a JSON object; JSON that is not an object; a body
\* that is not JSON; an object whose Message says 'not authorized' (all with
\* status 200, curl exit 0); status 403; another error status; no response
\* (timeout, connection error).
Outcomes ==
    {"ok", "not_object", "non_json", "not_authorized", "forbidden", "http_error",
     "transport"}

Min(a, b) == IF a <= b THEN a ELSE b

\* min(backoff_base * (2 ** (n - 1)), backoff_cap) + random.uniform(0, backoff_base / 2)
Delays(n) ==
    {Min(backoff_base * 2^(n - 1), backoff_cap) + jitter : jitter \in 0..(backoff_base \div 2)}

\* The function returns data.
ReturnData(data) ==
    /\ pc' = "returned"
    /\ fn_out' = [err |-> "", data |-> data]

\* The function raises RuntimeError.
RaiseError ==
    /\ pc' = "raised"
    /\ fn_out' = [err |-> "RuntimeError", data |-> ""]

\* attempt += 1 and the request, which meets o.
Issue(o) ==
    /\ attempt' = attempt + 1
    /\ responses' = Append(responses, o)

\* The sleep at the head of run_http_json's loop.
HttpSleep(delay) ==
    sleeps' = Append(sleeps, IF attempt > 0 THEN [kind |-> "backoff", delay |-> delay]
                             ELSE [kind |-> "first", delay |-> first_sleep])

\* One pass of run_http_json's loop: every exception of the try block is
\* caught, and the attempt ceiling is tested after it.
HttpAttempt(o) ==
    /\ pc = "loop"
    /\ fn_in.fn = "run_http_json"
    /\ \E delay \in (IF attempt > 0 THEN Delays(attempt) ELSE {first_sleep}) :
          HttpSleep(delay)
    /\ Issue(o)
    /\ IF o = "ok"
       THEN ReturnData(o) /\ UNCHANGED last_err
       ELSE /\ last_err' = o
            /\ IF attempt + 1 >= fn_in.max_retries
               THEN RaiseError
               ELSE UNCHANGED <<pc, fn_out>>
    /\ UNCHANGED <<args, cache, seen_headers, final_headers, all_cols_seen, rows,
                   removed, written, fn_in, total_pages, merged, futures, completed,
                   page_results, idx>>

\* curl exits with 0 on status 200 (--fail-with-body makes an error status a
\* failure of curl).
CurlExitZero(o) == o \in {"ok", "not_object", "non_json", "not_authorized"}

\* One pass of run_curl_json's loop: after exit 0 the body is decoded outside
\* any try block; after another exit the ceiling is tested, then the sleep.
CurlAttempt(o) ==
    /\ pc = "loop"
    /\ fn_in.fn = "run_curl_json"
    /\ Issue(o)
    /\ IF CurlExitZero(o)
       THEN /\ IF o \in {"non_json", "not_authorized"} THEN RaiseError ELSE ReturnData(o)
            /\ UNCHANGED <<last_err, sleeps>>
       ELSE /\ last_err' = o
            /\ IF attempt + 1 >= fn_in.max_retries
               THEN RaiseError /\ UNCHANGED sleeps
               ELSE /\ \E delay \in Delays(attempt + 1) :
                         sleeps' = Append(sleeps, [kind |-> "backoff", delay |-> delay])
                    /\ UNCHANGED <<pc, fn_out>>
    /\ UNCHANGED <<args, cache, seen_headers, final_headers, all_cols_seen, rows,
                   removed, written, fn_in, total_pages, merged, futures, completed,
                   page_results, idx>>

InitRequest ==
    /\ pc = "loop"
    /\ fn_in \in [fn : {"run_http_json", "run_curl_json"}, max_retries : 1..MaxRetries]
    /\ fn_out = <<>>
    /\ NoPipeline
    /\ NoRequest
    /\ NoAggregation

NextRequest ==
    \/ \E o \in Outcomes : HttpAttempt(o)
    \/ \E o \in Outcomes : CurlAttempt(o)

\* A running loop goes on: nothing but the request blocks it, and the request
\* has a timeout.
SpecRequest == InitRequest /\ [][NextRequest]_vars /\ WF_vars(NextRequest)

-----------------------------------------------------------------------------
(* Properties of the request loop *)

\* The errors the contract lists: a non-success response, a body that is not
\* JSON, an authorization-denial payload.
ListedErrors == {"forbidden", "http_error", "non_json", "not_authorized"}

\* The backoff sleeps slept so far, in order.
Backoffs == SelectSeq(sleeps, LAMBDA s : s.kind = "backoff")

Done == pc \in {"returned", "raised"}

\* C16: in both request functions, an attempt that meets a non-success
\* response, a non-JSON body or a 'not authorized' payload is fatal only when
\* it is attempt number max_retries; before that the loop goes on, and the
\* next attempt comes after a backoff sleep of the delay of that attempt.
C16_ErrorsRetried ==
    \A k \in 1..Len(responses) :
        responses[k] \in ListedErrors =>
            /\ k < fn_in.max_retries => (pc = "loop" \/ attempt > k)
            /\ k >= fn_in.max_retries => pc = "raised"
            /\ attempt > k => (Len(Backoffs) >= k /\ Backoffs[k].delay \in Delays(k))

\* C20: a request issues between one and max_retries attempts, with a backoff
\* sleep between consecutive attempts; it returns the decoded document of its
\* last attempt, no earlier attempt having succeeded, or raises when the
\* attempt counter has reached max_retries; while it runs every attempt so
\* far has failed and the ceiling is not reached.
C20_BoundedAttempts ==
    /\ attempt <= fn_in.max_retries
    /\ Len(responses) = attempt
    /\ Done => attempt >= 1
    /\ Len(Backoffs) >= attempt - 1
    /\ \A k \in 1..Len(Backoffs) : Backoffs[k].delay \in Delays(k)
    /\ \A k \in 1..(attempt - 1) : responses[k] # "ok"
    /\ pc = "returned" =>
          /\ responses[attempt] \in {"ok", "not_object"}
          /\ fn_out = [err |-> "", data |-> responses[attempt]]
    /\ pc = "raised" =>
          /\ attempt = fn_in.max_retries
          /\ fn_out.err = "RuntimeError"
    /\ pc = "loop" =>
          /\ attempt < fn_in.max_retries
          /\ \A k \in 1..attempt : responses[k] # "ok"

\* The request always terminates.
RequestTerminates == <>Done

\* The same two statements of run_http_json alone.
HttpErrorsRetried == fn_in.fn = "run_http_json" => C16_ErrorsRetried

HttpBoundedAttempts == fn_in.fn = "run_http_json" => C20_BoundedAttempts

-----------------------------------------------------------------------------
(* Pagination: find_total_pages and the page merge of aggregate_all_pages_http
   and aggregate_all_pages_curl (the two copies are the same) *)

DigitChars == {ToString(n) : n \in 0..9}

\* t.isdigit()
IsDigits(s) == s # <<>> /\ \A i \in 1..Len(s) : s[i] \in DigitChars

\* int(t) of a string of digits
IntValue(s) ==
    LET F[i \in 0..Len(s)] ==
            IF i = 0 THEN 0
            ELSE 10 * F[i-1] + (CHOOSE n \in 0..9 : ToString(n) = s[i])
    IN F[Len(s)]

\* The page count a totalSubmissionPages value gives (an int, or a string of
\* digits), -1 when it gives none.
PageCount(t) ==
    IF t.t = "int" \/ (t.t = "str" /\ IsDigits(t.s)) THEN IntValue(t.s) ELSE -1

FirstOf(counts) ==
    IF \E i \in 1..Len(counts) : counts[i] # -1
    THEN counts[SetMin({i \in 1..Len(counts) : counts[i] # -1})]
    ELSE 1

\* The first of: the count of the first application of a non-empty list, the
\* count of the application object, the count of the document; else 1.
find_total_pages(doc) ==
    FirstOf(<<IF HasField(doc, "applications", "list") /\ DocGet(doc, "applications").items # <<>>
              THEN PageCount(DocGet(DocGet(doc, "applications").items[1], "totalSubmissionPages"))
              ELSE IF HasField(doc, "applications", "dict")
              THEN PageCount(DocGet(DocGet(doc, "applications"), "totalSubmissionPages"))
              ELSE -1,
              PageCount(DocGet(doc, "totalSubmissionPages"))>>)

\* c.setdefault("submissions", []).extend(more) raises AttributeError when c
\* has a 'submissions' that is not a list.
CanExtend(c) ==
    ~HasKey(c.items, <<"submissions">>) \/ DictGet(c.items, <<"submissions">>).t = "list"

\* c after c.setdefault("submissions", []).extend(more)
ExtendSubs(c, more) ==
    IF HasKey(c.items, <<"submissions">>)
    THEN Dict(DictSet(c.items, <<"submissions">>,
                      List(DictGet(c.items, <<"submissions">>).items \o more)))
    ELSE Dict(Append(c.items, KV(<<"submissions">>, List(more))))

\* target after extend_app_list(target, page_data)
extend_app_list(target, page_data) ==
    IF ~(HasField(target, "applications", "list") /\ HasField(page_data, "applications", "list"))
    THEN target
    ELSE Dict(DictSet(target.items, <<"applications">>,
              List([i \in 1..Len(DocGet(target, "applications").items) |->
                      IF i <= Len(DocGet(page_data, "applications").items)
                      THEN ExtendSubs(DocGet(target, "applications").items[i],
                                      SubsOf(DocGet(page_data, "applications").items[i]))
                      ELSE DocGet(target, "applications").items[i]])))

\* target after extend_app_obj(target, page_data)
extend_app_obj(target, page_data) ==
    IF ~(HasField(target, "applications", "dict") /\ HasField(page_data, "applications", "dict"))
    THEN target
    ELSE Dict(DictSet(target.items, <<"applications">>,
                      ExtendSubs(DocGet(target, "applications"),
                                 SubsOf(DocGet(page_data, "applications")))))

\* target after extend_top_subs(target, page_data)
extend_top_subs(target, page_data) == ExtendSubs(target, SubsOf(page_data))

\* One of the three calls on page_data raises AttributeError.
ExtendRaises(target, page_data) ==
    \/ /\ HasField(target, "applications", "list")
       /\ HasField(page_data, "applications", "list")
       /\ \E i \in 1..Min(Len(DocGet(target, "applications").items),
                           Len(DocGet(page_data, "applications").items)) :
             ~CanExtend(DocGet(target, "applications").items[i])
    \/ /\ HasField(target, "applications", "dict")
       /\ HasField(page_data, "applications", "dict")
       /\ ~CanExtend(DocGet(target, "applications"))
    \/ ~CanExtend(target)

AttributeError == [t |-> "AttributeError"]

\* The three calls made for one page: the merged document after them, or the
\* exception; a slot that is None is passed over.
ExtendPage(target, page_data) ==
    IF target = AttributeError \/ page_data = Null THEN target
    ELSE IF ExtendRaises(target, page_data) THEN AttributeError
    ELSE extend_top_subs(extend_app_obj(extend_app_list(target, page_data), page_data),
                         page_data)

\* for page_data in page_results: if page_data is not None: extend ...
MergePages(target, results) ==
    LET F[i \in 0..Len(results)] ==
            IF i = 0 THEN target ELSE ExtendPage(F[i-1], results[i])
    IN F[Len(results)]

-----------------------------------------------------------------------------
(* aggregate_all_pages_http, whose pages 2..N are fetched by the workers of a
   thread pool, and aggregate_all_pages_curl, which fetches them in turn *)

MaxPages == 3

MaxPageSubs == 2

MaxWorkers == 2

AggMaxApps == 2

\* Submission j of application i on page p.
PageSubmission(p, i, j) ==
    Dict(<<KV(<<"submissionId">>, Num(<<ToString(p), ToString(i), ToString(j)>>))>>)

\* The 'submissions' of application i on page p: absent (-2), null (-1) or a
\* list of n submissions.
SubsField(p, i, n) ==
    IF n = -2 THEN <<>>
    ELSE <<KV(<<"submissions">>,
              IF n = -1 THEN Null ELSE List([j \in 1..n |-> PageSubmission(p, i, j)]))>>

\* The pagination signal: an integer, a numeric string, or absent.
TotalField(kind, total) ==
    CASE kind = "int" -> <<KV(<<"totalSubmissionPages">>, Num(<<ToString(total)>>))>>
      [] kind = "str" -> <<KV(<<"totalSubmissionPages">>, Str(<<ToString(total)>>))>>
      [] OTHER -> <<>>

\* Page p of the response in one of the three shapes that carry pages.
PageDoc(shape, napps, p, n, total) ==
    CASE shape = "list" ->
            Dict(<<KV(<<"applications">>,
                      List([i \in 1..napps |->
                               Dict(<<KV(<<"applicationId">>, Str(<<ToString(i)>>))>>
                                    \o (IF i = 1 THEN total ELSE <<>>)
                                    \o SubsField(p, i, n))]))>>)
      [] shape = "object" ->
            Dict(<<KV(<<"applications">>,
                      Dict(<<KV(<<"applicationId">>, Str(<<"1">>))>> \o total
                           \o SubsField(p, 1, n)))>>)
      [] OTHER ->
            Dict(<<KV(<<"applicationId">>, Str(<<"1">>))>> \o total \o SubsField(p, 1, n))

\* What the server holds: the pages of one response.
Servers ==
    UNION {{[p \in 1..total |->
                PageDoc(sh[1], sh[2], p, forms[p], TotalField(kind, total))] :
              sh \in ({"list"} \X (1..AggMaxApps)) \cup {<<"object", 1>>, <<"top", 1>>},
              kind \in {"int", "str", "absent"},
              forms \in [1..total -> -2..MaxPageSubs]} :
           total \in 1..MaxPages}

InitAggregate ==
    /\ pc = "first"
    /\ fn_in \in [fn : {"aggregate_all_pages_http"}, pages : Servers,
                   max_concurrent_requests : 1..MaxWorkers]
               \cup [fn : {"aggregate_all_pages_curl"}, pages : Servers,
                      max_concurrent_requests : {1}]
    /\ fn_out = <<>>
    /\ NoPipeline
    /\ NoRequest
    /\ NoAggregation

\* The request of a page has ended: run_http_json or run_curl_json returned
\* the page (ok) or raised after its retries.
Fetched(page, ok) == responses' = Append(responses, [page |-> page, ok |-> ok])

\* The aggregation raises: no document comes back.
RaisePageError(err) ==
    /\ pc' = "raised"
    /\ fn_out' = [err |-> err, data |-> Null]

\* extend(...) raised AttributeError.
RaiseAttributeError == RaisePageError("AttributeError")

\* The first request, the page count, and for the HTTP function the
\* submission of one future per further page.
FetchFirst(ok) ==
    /\ pc = "first"
    /\ Fetched(1, ok)
    /\ IF ~ok
       THEN /\ RaisePageError("RuntimeError")
            /\ UNCHANGED <<total_pages, merged, futures, page_results>>
       ELSE /\ total_pages' = SetMax({find_total_pages(fn_in.pages[1]), 1})
            /\ IF total_pages' <= 1
               THEN /\ ReturnData(fn_in.pages[1])
                    /\ UNCHANGED <<merged, futures, page_results>>
               ELSE /\ merged' = fn_in.pages[1]
                    /\ IF fn_in.fn = "aggregate_all_pages_http"
                       THEN /\ futures' = [i \in 1..(total_pages' - 1) |-> "pending"]
                            /\ page_results' = [i \in 1..(total_pages' - 1) |-> Null]
                            /\ pc' = "collect"
                       ELSE /\ pc' = "page"
                            /\ UNCHANGED <<futures, page_results>>
                    /\ UNCHANGED fn_out
    /\ UNCHANGED <<args, cache, seen_headers, final_headers, all_cols_seen, rows,
                   removed, written, fn_in, attempt, last_err, sleeps, completed, idx>>

\* A free worker of the pool takes the next future of the queue.
WorkerStart(i) ==
    /\ pc \in {"collect", "shutdown"}
    /\ i \in 1..Len(futures)
    /\ futures[i] = "pending"
    /\ \A j \in 1..(i - 1) : futures[j] # "pending"
    /\ Cardinality({j \in 1..Len(futures) : futures[j] = "running"})
          < fn_in.max_concurrent_requests
    /\ futures' = [futures EXCEPT ![i] = "running"]
    /\ UNCHANGED <<pc, args, cache, seen_headers, final_headers, all_cols_seen, rows,
                   removed, written, fn_in, fn_out, attempt, last_err, sleeps,
                   responses, total_pages, merged, completed, page_results, idx>>

\* fetch(url) ends in its worker: the future holds the page or the exception.
WorkerFinish(i, ok) ==
    /\ i \in 1..Len(futures)
    /\ futures[i] = "running"
    /\ futures' = [futures EXCEPT ![i] = IF ok THEN "done" ELSE "failed"]
    /\ completed' = Append(completed, i)
    /\ Fetched(i + 1, ok)
    /\ UNCHANGED <<pc, args, cache, seen_headers, final_headers, all_cols_seen, rows,
                   removed, written, fn_in, fn_out, attempt, last_err, sleeps,
                   total_pages, merged, page_results, idx>>

\* Collect that fills the slots in the order the fetches completed.
Collect_completion_order ==
    /\ pc = "collect"
    /\ Len(completed) > idx
    /\ IF futures[completed[idx + 1]] = "done"
       THEN /\ page_results' = [page_results EXCEPT ![idx + 1] =
                                   fn_in.pages[completed[idx + 1] + 1]]
            /\ idx' = idx + 1
            /\ pc' = IF idx + 1 = Len(futures) THEN "merge" ELSE "collect"
       ELSE /\ pc' = "shutdown"
            /\ UNCHANGED <<page_results, idx>>
    /\ UNCHANGED <<args, cache, seen_headers, final_headers, all_cols_seen, rows,
                   removed, written, fn_in, fn_out, attempt, last_err, sleeps,
                   responses, total_pages, merged, futures, completed>>

\* Collect that leaves the slot of a failed fetch empty and goes on.
Collect_skip_failed ==
    /\ pc = "collect"
    /\ futures[idx + 1] \in {"done", "failed"}
    /\ page_results' = [page_results EXCEPT ![idx + 1] =
                           IF futures[idx + 1] = "done" THEN fn_in.pages[idx + 2] ELSE Null]
    /\ idx' = idx + 1
    /\ pc' = IF idx + 1 = Len(futures) THEN "merge" ELSE "collect"
    /\ UNCHANGED <<args, cache, seen_headers, final_headers, all_cols_seen, rows,
                   removed, written, fn_in, fn_out, attempt, last_err, sleeps,
                   responses, total_pages, merged, futures, completed>>

\* One pass of "for idx, fut in enumerate(futures)": fut.result() waits for
\* the future, then gives the page, stored in slot idx, or raises, which
\* leaves the loop.
Collect ==
    /\ pc = "collect"
    /\ futures[idx + 1] \in {"done", "failed"}
    /\ IF futures[idx + 1] = "done"
       THEN /\ page_results' = [page_results EXCEPT ![idx + 1] = fn_in.pages[idx + 2]]
            /\ idx' = idx + 1
            /\ pc' = IF idx + 1 = Len(futures) THEN "merge" ELSE "collect"
       ELSE /\ pc' = "shutdown"
            /\ UNCHANGED <<page_results, idx>>
    /\ UNCHANGED <<args, cache, seen_headers, final_headers, all_cols_seen, rows,
                   removed, written, fn_in, fn_out, attempt, last_err, sleeps,
                   responses, total_pages, merged, futures, completed>>

\* The exception leaves the with block, whose exit waits for every future
\* (those still queued run first), and then leaves the function.
Shutdown ==
    /\ pc = "shutdown"
    /\ \A i \in 1..Len(futures) : futures[i] \in {"done", "failed"}
    /\ RaisePageError("RuntimeError")
    /\ UNCHANGED <<args, cache, seen_headers, final_headers, all_cols_seen, rows,
                   removed, written, fn_in, attempt, last_err, sleeps, responses,
                   total_pages, merged, futures, completed, page_results, idx>>

\* The loop over page_results after the with block, and the return.
Merge ==
    /\ pc = "merge"
    /\ IF MergePages(merged, page_results) = AttributeError
       THEN RaiseAttributeError /\ UNCHANGED merged
       ELSE /\ merged' = MergePages(merged, page_results)
            /\ ReturnData(merged')
    /\ UNCHANGED <<args, cache, seen_headers, final_headers, all_cols_seen, rows,
                   removed, written, fn_in, attempt, last_err, sleeps, responses,
                   total_pages, futures, completed, page_results, idx>>

\* One pass of aggregate_all_pages_curl's loop over the pages 2..N, and the
\* return after the last.
CurlPage(ok) ==
    /\ pc = "page"
    /\ Fetched(idx + 2, ok)
    /\ IF ~ok
       THEN RaisePageError("RuntimeError") /\ UNCHANGED <<merged, idx>>
       ELSE IF ExtendPage(merged, fn_in.pages[idx + 2]) = AttributeError
       THEN RaiseAttributeError /\ UNCHANGED <<merged, idx>>
       ELSE /\ merged' = ExtendPage(merged, fn_in.pages[idx + 2])
            /\ idx' = idx + 1
            /\ IF idx + 2 = total_pages
               THEN ReturnData(merged')
               ELSE UNCHANGED <<pc, fn_out>>
    /\ UNCHANGED <<args, cache, seen_headers, final_headers, all_cols_seen, rows,
                   removed, written, fn_in, attempt, last_err, sleeps, total_pages,
                   futures, completed, page_results>>

NextAggregate ==
    \/ \E ok \in BOOLEAN : FetchFirst(ok)
    \/ \E i \in 1..(MaxPages - 1) : WorkerStart(i)
    \/ \E i \in 1..(MaxPages - 1), ok \in BOOLEAN : WorkerFinish(i, ok)
    \/ Collect
    \/ Shutdown
    \/ Merge
    \/ \E ok \in BOOLEAN : CurlPage(ok)

SpecAggregate == InitAggregate /\ [][NextAggregate]_vars

-----------------------------------------------------------------------------
(* Properties of the aggregation *)

\* The objects of a page that carry submissions: the applications of the
\* list, the application object, or the page itself.
Containers(doc) ==
    IF DocGet(doc, "applications").t = "list" THEN DocGet(doc, "applications").items
    ELSE IF DocGet(doc, "applications").t = "dict" THEN <<DocGet(doc, "applications")>>
    ELSE <<doc>>

\* The submissions of container c of a page.
ContainerSubs(doc, c) ==
    IF c <= Len(Containers(doc)) /\ DocGet(Containers(doc)[c], "submissions").t = "list"
    THEN DocGet(Containers(doc)[c], "submissions").items
    ELSE <<>>

\* The submissions of the pages, those of each container in page order.
InPageOrder(pages) ==
    Concat([c \in 1..Len(Containers(pages[1])) |->
               Concat([p \in 1..Len(pages) |-> ContainerSubs(pages[p], c)])])

\* The submissions the flattening core receives from a document.
HandedToCore(doc) ==
    [i \in 1..Len(coerce_to_pairs(doc).pairs) |-> coerce_to_pairs(doc).pairs[i][2]]

IsHttp == fn_in.fn = "aggregate_all_pages_http"

\* C14: whatever the order in which the fetches of the pages 2..N complete,
\* the document aggregate_all_pages_http returns hands the flattening core
\* the submissions of page 1, then of page 2, ..., then of page N (those of
\* each application in that order); with one page it is page 1.
C14_PageOrder ==
    (IsHttp /\ pc = "returned") =>
        IF total_pages <= 1 THEN fn_out.data = fn_in.pages[1]
        ELSE /\ coerce_to_pairs(fn_out.data).err = ""
             /\ HandedToCore(fn_out.data) = InPageOrder(SubSeq(fn_in.pages, 1, total_pages))

\* C14's case: three pages with submissions, the fetch of page 3 completing
\* before that of page 2.
C14_Witness ==
    /\ IsHttp
    /\ pc = "returned"
    /\ completed = <<2, 1>>
    /\ \A p \in 1..3 : ContainerSubs(fn_in.pages[p], 1) # <<>>

\* A request of some page has raised after its retries.
Failed == \E i \in 1..Len(responses) : ~responses[i].ok

\* C15: once the fetch of a page has failed, neither function returns a
\* document: it goes on to raise; and a document that is returned comes from
\* successful fetches of all the pages 1..N and omits none of their submissions.
C15_FailureAborts ==
    /\ Failed =>
          /\ pc \in {"collect", "shutdown", "raised"}
          /\ fn_out \in {<<>>, [err |-> "RuntimeError", data |-> Null]}
          /\ pc = "collect" => \E i \in (idx + 1)..Len(futures) : futures[i] = "failed"
    /\ pc = "returned" =>
          /\ \A p \in 1..total_pages : \E i \in 1..Len(responses) :
                 responses[i] = [page |-> p, ok |-> TRUE]
          /\ Range(InPageOrder(SubSeq(fn_in.pages, 1, total_pages)))
                \subseteq Range(HandedToCore(fn_out.data))

\* C15's case: of three pages the fetch of page 2 succeeded and its result
\* was stored, the fetch of page 3 failed, and the function raised.
C15_Witness ==
    /\ IsHttp
    /\ pc = "raised"
    /\ futures = <<"done", "failed">>
    /\ page_results[1] # Null

\* An aggregation that has not ended can take a step (each step starts,
\* finishes or collects a future or a page, so it ends).
NeverStuck ==
    pc \in {"collect", "shutdown"} =>
        \/ \E i \in 1..Len(futures) : futures[i] = "running"
        \/ \E i \in 1..Len(futures) : futures[i] = "pending"
        \/ pc = "shutdown"
        \/ futures[idx + 1] \in {"done", "failed"}

-----------------------------------------------------------------------------
(* Implicit properties of the pipeline *)

\* C21: when the loop over the submissions has ended, every observed column
\* name has been seen by the aggregation of the blocks (the metadata keys are
\* seeded names, the data keys are separators or columns of blocks), so the
\* fallback pass over the set of observed names appends nothing: it leaves the
\* header and the set of seen names as they are, whatever the iteration order.
C21_FallbackAppendsNothing ==
    [][(pc = "pairs" /\ pc' = "drop") =>
          /\ all_cols_seen \subseteq seen_headers
          /\ \A i \in 1..Len(cache) :
                /\ KeySet(cache[i].meta) \subseteq Range(meta_order)
                /\ KeySet(cache[i].dyn) \subseteq Range(RowTraversal(cache[i]))
          /\ final_headers' = final_headers
          /\ seen_headers' = seen_headers]_vars

\* C21's case: the fallback pass has run after two submissions with
\* metadata, separators, scalar question columns and flattened ones.
C21_Witness ==
    /\ pc = "drop"
    /\ Len(cache) = 2
    /\ \A i \in 1..2 : KeySet(cache[i].meta) # {}
    /\ \E i \in 1..2 : SepA \in KeySet(cache[i].dyn)
    /\ \E i \in 1..2 : <<"X">> \in KeySet(cache[i].dyn)
    /\ \E i \in 1..2 : <<"Y", "_", "k">> \in KeySet(cache[i].dyn)

\* The separators of a row's blocks, first occurrences in order.
SeparatorsOf(entry) ==
    FromKeys(SelectSeq([b \in 1..Len(entry.blocks) |-> entry.blocks[b][1]],
                       LAMBDA h : h # <<>>))

\* C22: at the end of a run on exactly one submission, with constant-column
\* dropping on and no user keep pattern, the filter has removed every
\* metadata column and every question column, and the written table is the
\* section separators as header and one data row of empty cells.
C22_OneSubmissionOnlySeparators ==
    (pc = "done" /\ Len(cache) = 1 /\ args.drop_constants /\ args.keep_col = <<>>) =>
        /\ \A c \in Range(meta_order) \cup Range(BlockColumns(cache[1].blocks)) :
              c \in Range(removed) /\ c \notin Range(written.header)
        /\ written.header = SeparatorsOf(cache[1])
        /\ \A j \in 1..Len(written.header) : IsSeparatorName(written.header[j])
        /\ written.rows = <<[j \in 1..Len(written.header) |-> Str(<<>>)]>>

\* C22's case: the one submission has metadata and two sections with an
\* answered question each, and the table written has the two separators.
C22_Witness ==
    /\ pc = "done"
    /\ Len(cache) = 1
    /\ cache[1].meta # <<>>
    /\ Cardinality(Range(BlockColumns(cache[1].blocks))) = 2
    /\ written.header = <<SepA, SepB>>
    /\ Len(written.rows) = 1

\* The blocks of the cached submissions, <<submission, block>>, that list
\* column c.
BlocksWith(c) ==
    {kb \in (1..Len(cache)) \X (1..MaxSections) :
        /\ kb[2] <= Len(cache[kb[1]].blocks)
        /\ c \in Range(cache[kb[1]].blocks[kb[2]][2])}

\* The block in which column c first occurred: the first submission that has
\* it, and that submission's first block that has it.
FirstBlockWith(c) ==
    CHOOSE kb \in BlocksWith(c) :
        \A other \in BlocksWith(c) :
            kb[1] < other[1] \/ (kb[1] = other[1] /\ kb[2] <= other[2])

\* The separator of the section in which column c first occurred.
FirstSeparatorOf(c) == cache[FirstBlockWith(c)[1]].blocks[FirstBlockWith(c)[2]][1]

\* C23: with separators enabled, after every submission and up to the end,
\* every question column of the header that is not a metadata name comes
\* after the separator column of the section in which it first occurred.
C23_SeparatorPrecedes ==
    args.section_separators =>
        \A j \in 1..Len(final_headers) :
            (final_headers[j] \notin Range(meta_order) /\ BlocksWith(final_headers[j]) # {}) =>
                \E i \in 1..(j - 1) : final_headers[i] = FirstSeparatorOf(final_headers[j])

\* C23's case: the second submission brings a new column into section A
\* after the first had columns in sections A and B, so that the new column
\* follows A's separator without being next to A's other column.
C23_Witness ==
    /\ pc = "drop"
    /\ args.section_separators
    /\ Len(cache) = 2
    /\ \E j \in 1..Len(final_headers) :
          /\ final_headers[j] \notin Range(meta_order)
          /\ BlocksWith(final_headers[j]) # {}
          /\ FirstBlockWith(final_headers[j])[1] = 2
          /\ FirstSeparatorOf(final_headers[j]) = SepA
          /\ \E i \in 1..(j - 1) : final_headers[i] = SepB
          /\ IndexOf(final_headers, SepA) < IndexOf(final_headers, SepB)
          /\ final_headers[IndexOf(final_headers, SepA) + 1] \notin {SepB, final_headers[j]}

====
